---- MODULE Spec2Model ----
(***************************************************************************)
(* Model of the VideoPlayerApp front end:                                  *)
(*   - the notification store and window helper of the composables file,   *)
(*   - the playback controller of views/Player.vue.                        *)
(* Every subsystem is a set of actions over its own variables; each        *)
(* specification below runs the handlers of one subsystem from the state   *)
(* the component is constructed in.                                        *)
(***************************************************************************)
EXTENDS Integers, Sequences, FiniteSets, TLC

(***************************************************************************)
(* JavaScript values.  Values of different JavaScript types meet in the    *)
(* same field (a timeout is a number or undefined, add returns a string or *)
(* undefined), so every value is a tagged record.  A number is two limbs,  *)
(* hi * 2^31 + lo, because Number.MAX_SAFE_INTEGER = 2^53 - 1 does not fit *)
(* a 32-bit integer.                                                       *)
(***************************************************************************)
Undefined == [t |-> "undefined"]

Null == [t |-> "null"]

Num(n) == [t |-> "number", hi |-> 0, lo |-> n]

Str(s) == [t |-> "string", s |-> s]

Bool(b) == [t |-> "boolean", b |-> b]

\* Number.MAX_SAFE_INTEGER = 2^53 - 1 = (2^22 - 1) * 2^31 + (2^31 - 1)
MAX_SAFE_INTEGER == [t |-> "number", hi |-> 4194303, lo |-> 2147483647]

\* a ?? b : b when a is null or undefined, a otherwise
Nullish(a, b) == IF a \in {Undefined, Null} THEN b ELSE a

\* the empty string; a string is the sequence of its characters or tokens
EmptyString == Str(<<>>)

\* JavaScript truthiness of the values the model uses
Truthy(v) ==
    CASE v.t = "undefined" -> FALSE
      [] v.t = "null"      -> FALSE
      [] v.t = "boolean"   -> v.b
      [] v.t = "number"    -> ~(v.hi = 0 /\ v.lo = 0)
      [] v.t = "string"    -> v.s # <<>>

(***************************************************************************)
(* Strings and paths.  A string is the sequence of its characters, so that *)
(* substring, replace and the path functions compute on it.               *)
(***************************************************************************)
\* String.prototype.toLowerCase, on the letters the model's paths use
LowerChar(c) ==
    CASE c = "M" -> "m"
      [] c = "P" -> "p"
      [] OTHER   -> c

toLowerCase(str) == [i \in 1..Len(str) |-> LowerChar(str[i])]

\* str.substring(start, end), 0-based, end exclusive
substring(str, start, end) == SubSeq(str, start + 1, end)

\* largest index of c in str, 0 when c does not occur
LastIndexOf(str, c) ==
    IF \E i \in 1..Len(str) : str[i] = c
    THEN CHOOSE i \in 1..Len(str) :
            str[i] = c /\ \A j \in (i + 1)..Len(str) : str[j] # c
    ELSE 0

\* str.replace(pattern, replacement): the first occurrence only
replace(str, pattern, replacement) ==
    LET n == Len(pattern)
        hits == {i \in 1..(Len(str) - n + 1) : SubSeq(str, i, i + n - 1) = pattern}
    IN  IF hits = {} THEN str
        ELSE LET i == CHOOSE h \in hits : \A g \in hits : h <= g
             IN  SubSeq(str, 1, i - 1) \o replacement
                    \o SubSeq(str, i + n, Len(str))

\* list.includes(x)
includes(list, x) == \E i \in 1..Len(list) : list[i] = x

\* the outcome of a path call whose promise is rejected
Rejected == <<"rejected">>

\* basename(path) of @tauri-apps/api/path: the last component
basename(path) == SubSeq(path, LastIndexOf(path, "/") + 1, Len(path))

\* extname(path) of @tauri-apps/api/path: the extension of the last
\* component WITHOUT its dot ("mp4" for "a.mp4", as line 241 relies on);
\* the promise is rejected when the component has no extension
extname(path) ==
    LET name == basename(path)
        dot  == LastIndexOf(name, ".")
    IN  IF dot <= 1 THEN Rejected ELSE SubSeq(name, dot + 1, Len(name))

\* encodeURIComponent on the characters of the model's paths
EncodeChar(c) == IF c = "/" THEN "%2F" ELSE c

\* convertFileSrc(filepath): the asset URL of the file
convertFileSrc(path) ==
    <<"https://asset.localhost/">> \o [i \in 1..Len(path) |-> EncodeChar(path[i])]

VALID_EXTENSIONS ==
    << <<"o", "g", "g">>, <<"w", "e", "b", "m">>, <<"m", "p", "4">>,
       <<"m", "k", "v">>, <<"m", "o", "v">>, <<"m", "p", "3">> >>

(***************************************************************************)
(* The files and command lines of a run                                    *)
(***************************************************************************)
FileMp4 == <<"a", ".", "m", "p", "4">>

FileMissing == <<"b", ".", "m", "p", "4">>

FileTxt == <<"c", ".", "t", "x", "t">>

FileXmp4 == <<"d", ".", "x", "m", "p", "4">>

FileUpper == <<"/", "e", ".", "M", "P", "4">>

FileNoExt == <<"f">>

\* what exists(path) answers true for
ExistingFiles == {FileMp4, FileTxt, FileXmp4, FileUpper, FileNoExt}

\* matches.args["videoPath"].value: null without the argument
CliArgs ==
    {Null} \cup {Str(f) : f \in ExistingFiles \cup {FileMissing}}

\* what the user can pick in the file dialog, filtered by VALID_EXTENSIONS
DialogFiles == {FileMp4, FileUpper}

\* the file a YouTube download is written to, its name holding the code
FileYoutube == <<"t", " ", "[", "c", "]", ".", "m", "p", "4">>

\* the payloads of the "video-downloaded" event
YoutubePayloads == {[path |-> FileYoutube, code |-> <<"c">>]}

\* what the save dialog answers: null when cancelled, else the path
SavePaths == {Null, Str(<<"s", ".", "m", "p", "4">>)}

\* what save_youtube_video answers: empty, or the description of an error
SaveResults == {Str(<<>>), Str(<<"failed">>)}

\* setVideoSource calls in flight at the same time
MaxOpens == 1

\* "video-downloaded" listener calls waiting for basename at the same time
MaxDownloads == 1

\* saveYouTubeVideo calls in flight at the same time
MaxSaves == 1

\* Player instances mounted one after the other in a run
MaxMounts == 2

\* file dialogs open at the same time
MaxDialogs == 1

(***************************************************************************)
(* Bounds of the notification subsystem                                    *)
(***************************************************************************)
\* number of add calls of a run, and of distinct identifiers uuid can draw
MaxAdds == 3

UUIDs == {Str(<<n>>) : n \in 1..MaxAdds}

\* an identifier uuid never produces, for remove calls that match nothing
NoSuchId == Str(<<0>>)

Texts == {"x"}

Types == {"error", "success"}

\* the timeouts a caller passes: none, the -1 sentinel, 0, a delay
Timeouts == {Undefined, Num(-1), Num(0), Num(5000)}

Options == [text : Texts, type : Types, timeout : Timeouts]

(***************************************************************************)
(* Constants and bounds of the playback controller                         *)
(***************************************************************************)
\* PLAYBACK_SPEEDS, in hundredths (0.07 is 7, 1 is 100, 16 is 1600)
PLAYBACK_SPEEDS ==
    <<7, 10, 25, 50, 75, 100, 125, 150, 175, 200, 250, 300, 500, 750, 1000,
      1200, 1400, 1600>>

\* let playbackIndex = 5
DefaultPlaybackIndex == 5

\* the rate useMediaControls starts with (1), in hundredths
DefaultRate == 100

\* changePlayrate(1) on key d, changePlayrate(0) on key s
Directions == {1, 0}

\* number of changePlayrate calls of a run
MaxRateCalls == 13

\* number of transformation-alert timeouts pending at the same time
MaxAlertTimers == 2

\* number of playVideo calls waiting for play() at the same time
MaxPlayPending == 1

\* number of useWindowClose instances of a run (mount/unmount cycles)
MaxInstances == 2

Instances == 1..MaxInstances

\* number of closeWindow calls waiting for getByLabel at the same time
MaxClosing == 2

\* e.code of the keydown events of a run
KeyCodes == {"Escape", "KeyA"}

\* what a caller passes as disableBlur: a boolean (false when left out)
\* or a Ref<boolean> holding one
DisableBlurArgs == [isRef : BOOLEAN, value : BOOLEAN]

\* the durations (seconds) of the media a run loads
MediaDurations == {10, 100}

\* seconds of playback between two timeupdate events
TimeSteps == {5}

\* rewindVideo(10)/forwardVideo(10) on j/k, 5 on the arrows and buttons
SeekAmounts == {5, 10}

\* NUM_KEYS: seekVideoSection(parseInt(key) / 10)
NUM_KEYS == 0..9

\* volume is kept in thousandths: 1000 is volume 1, 100 the step 0.1
FullVolume == 1000

VolumeStep == 100

\* const volumeCache = ref<number>(0.5); history's default volume: 0.5
DefaultVolume == 500

\* the volumes a run can start with: history.volume, a multiple of 0.1
VolumeLevels == {k * VolumeStep : k \in 0..(FullVolume \div VolumeStep)}

\* the error of a binary floating point sum against the decimal sum, at
\* most one unit of the model's resolution (far more than the real one)
FloatErr == {-1, 0, 1}

VARIABLES
    notifications,  \* store.value.notifications
    issued,         \* identifiers uuid() has returned so far
    added,          \* identifiers in the order of the add calls (history)
    playbackIndex,  \* index into PLAYBACK_SPEEDS, 0-based as in the code
    rate,           \* rate.value of useMediaControls, in hundredths
    uiHidden,       \* uiHidden.value
    hideTimer,      \* whether the 1250 ms auto-hide timeout is pending
    rateCalls,      \* number of changePlayrate calls so far (history)
    incCalls,       \* number of those with direction 1 (history)
    transformationIcon,  \* transformationIcon.value
    transformationText,  \* transformationText.value
    alertTimers,    \* number of pending 600 ms alert-clearing timeouts
    volume,         \* volume.value of useMediaControls, in thousandths
    volumeCache,    \* volumeCache.value, in thousandths
    history,        \* the persisted resume record, history.value
    currentTime,    \* currentTime.value of useMediaControls, seconds
    duration,       \* duration.value of useMediaControls, seconds
    paused,         \* videoPlayer.value.paused, the element's own state
    playing,        \* playing.value, which follows the play/pause events
    playPending,    \* playVideo calls waiting at `await play()`
    looping,        \* looping.value
    endedListeners, \* listeners of the element's "ended" event, in order
    cliPath,        \* the videoPath argument of the command line
    startPc,        \* where the onBeforeMount hook is, then how it ended
    opens,          \* setVideoSource calls in flight, each with its pc
    dialogs,        \* showVideoDialog calls waiting for the file dialog
    choosingVideo,  \* choosingVideo.value
    videoSrc,       \* videoSrc.value
    videoTitle,     \* videoTitle.value
    helpers,        \* the useWindowClose instances: lifecycle, disableBlur
    keydownListeners, \* instances whose eventHandler listens on window
    winOpen,        \* whether a window with the label exists
    closing,        \* closeWindow calls waiting for getByLabel
    downloads,      \* "video-downloaded" payloads waiting for basename
    saves,          \* saveYouTubeVideo calls in flight, each with its pc
    mounted,        \* whether a Player instance is mounted
    mounts,         \* the Player instances mounted so far; the last is current
    windowListeners, \* per event type, the listeners registered on window
    last            \* the last call: its name, arguments, result and pre-state

notifVars == <<notifications, issued, added>>

rateVars == <<playbackIndex, rate, uiHidden, hideTimer, rateCalls, incCalls>>

alertVars == <<transformationIcon, transformationText, alertTimers>>

volumeVars == <<volume, volumeCache>>

mediaVars == <<currentTime, duration, paused, playing, playPending>>

loopVars == <<looping, endedListeners>>

sourceVars ==
    <<cliPath, startPc, opens, dialogs, choosingVideo, videoSrc, videoTitle>>

windowVars == <<helpers, keydownListeners, winOpen, closing>>

youtubeVars == <<downloads, saves>>

lifecycleVars == <<mounted, mounts, windowListeners>>

vars ==
    <<notifVars, rateVars, alertVars, volumeVars, mediaVars, loopVars,
      sourceVars, windowVars, youtubeVars, lifecycleVars, history, last>>

(***************************************************************************)
(* Array helpers, as Array.prototype defines them                          *)
(***************************************************************************)
push(list, e) == Append(list, e)

\* index (0-based) of the first element whose id is `id`, -1 when none
findIndex(list, id) ==
    IF \E i \in 1..Len(list) : list[i].id = id
    THEN (CHOOSE i \in 1..Len(list) :
             /\ list[i].id = id
             /\ \A j \in 1..(i - 1) : list[j].id # id) - 1
    ELSE -1

\* list.splice(start, 1): a negative start counts from the end
splice(list, start) ==
    LET s == IF start < 0
             THEN (IF Len(list) + start < 0 THEN 0 ELSE Len(list) + start)
             ELSE (IF start > Len(list) THEN Len(list) ELSE start)
    IN  [i \in 1..(IF s < Len(list) THEN Len(list) - 1 ELSE Len(list)) |->
            IF i <= s THEN list[i] ELSE list[i + 1]]

(***************************************************************************)
(* useNotification                                                         *)
(***************************************************************************)
\* uuid(): the identifiers a call can return (a v4 UUID never repeats)
uuid == UUIDs \ issued

\* mutation: the -1 sentinel is stored as it is
StoredTimeoutNoSentinel(timeout) == Nullish(timeout, Num(0))

\* options.timeout === -1 ? Number.MAX_SAFE_INTEGER : options.timeout ?? 0
StoredTimeout(timeout) ==
    IF timeout = Num(-1) THEN MAX_SAFE_INTEGER ELSE Nullish(timeout, Num(0))

NewEntry(uniqueId, options) ==
    [id      |-> uniqueId,
     text    |-> options.text,
     type    |-> options.type,
     timeout |-> StoredTimeout(options.timeout)]

\* mutation: the new entry is put in front of the list
AddPushFront(list, uniqueId, options) == <<NewEntry(uniqueId, options)>> \o list

\* the list after add's push
AddPush(list, uniqueId, options) == push(list, NewEntry(uniqueId, options))

\* what add hands back to its caller: the arrow function has no return
AddReturn(uniqueId) == Undefined

add(options) ==
    /\ Cardinality(issued) < MaxAdds
    /\ \E uniqueId \in uuid :
          /\ notifications' = AddPush(notifications, uniqueId, options)
          /\ issued' = issued \cup {uniqueId}
          /\ added' = Append(added, uniqueId)
          /\ last' = [op |-> "add", options |-> options, id |-> uniqueId,
                      ret |-> AddReturn(uniqueId), pre |-> notifications]

\* mutation: the guard on the index is dropped, so splice(-1, 1) runs
RemoveUnguarded(list, id) == splice(list, findIndex(list, id))

\* the list after remove(id)
RemoveResult(list, id) ==
    LET indexToRemove == findIndex(list, id)
    IN  IF indexToRemove > -1 THEN splice(list, indexToRemove) ELSE list

remove(id) ==
    /\ notifications' = RemoveResult(notifications, id)
    /\ last' = [op |-> "remove", id |-> id, pre |-> notifications]
    /\ UNCHANGED <<issued, added>>

(***************************************************************************)
(* Playback rate and the auto-hide timer of the controls                   *)
(***************************************************************************)
\* mutation: the index wraps around at the ends of the list
NextIndexWrap(index, direction) ==
    IF direction = 1
    THEN (index + 1) % Len(PLAYBACK_SPEEDS)
    ELSE (index + Len(PLAYBACK_SPEEDS) - 1) % Len(PLAYBACK_SPEEDS)

\* mutation: the upper clamp is one entry short of the end of the list
NextIndexShort(index, direction) ==
    IF direction = 1
    THEN (IF index < Len(PLAYBACK_SPEEDS) - 2 THEN index + 1 ELSE index)
    ELSE (IF index > 0 THEN index - 1 ELSE index)

\* the index after changePlayrate(direction)
NextIndex(index, direction) ==
    IF direction = 1
    THEN (IF index < Len(PLAYBACK_SPEEDS) - 1 THEN index + 1 ELSE index)
    ELSE (IF index > 0 THEN index - 1 ELSE index)

\* PLAYBACK_SPEEDS[index], the array being 0-based
SpeedAt(index) == PLAYBACK_SPEEDS[index + 1]

changePlayrate(direction) ==
    /\ rateCalls < MaxRateCalls
    /\ playbackIndex' = NextIndex(playbackIndex, direction)
    /\ rate' = SpeedAt(playbackIndex')
    /\ uiHidden' = FALSE                      \* stop(); uiHidden = false;
    /\ hideTimer' = TRUE                      \* start()
    /\ rateCalls' = rateCalls + 1
    /\ incCalls' = IF direction = 1 THEN incCalls + 1 ELSE incCalls
    /\ last' = [op |-> "changePlayrate", direction |-> direction,
                pre |-> playbackIndex, started |-> TRUE]

\* mouseMoveHandler: while the chooser shows, the controls are hidden and
\* the handler returns (a pending timeout is left alone); else stop(),
\* uiHidden = false, start().  `started`: whether start() was called
mouseMoveHandler ==
    /\ IF choosingVideo
       THEN /\ uiHidden' = TRUE
            /\ hideTimer' = hideTimer
       ELSE /\ uiHidden' = FALSE
            /\ hideTimer' = TRUE
    /\ last' = [op |-> "mouseMoveHandler", started |-> ~choosingVideo]
    /\ UNCHANGED <<playbackIndex, rate, rateCalls, incCalls>>

\* the callback of useTimeoutFn(..., 1250)
HideTimerFires ==
    /\ hideTimer
    /\ uiHidden' = TRUE
    /\ hideTimer' = FALSE
    /\ last' = [op |-> "hideTimer"]
    /\ UNCHANGED <<playbackIndex, rate, rateCalls, incCalls>>

InitNotif ==
    /\ notifications = <<>>
    /\ issued = {}
    /\ added = <<>>

NoCall == [op |-> "none"]

(***************************************************************************)
(* The transformation alert                                                *)
(***************************************************************************)
\* mutation: the call starts no timeout
AlertTimersAfterCallNone(pending) == pending

\* mutation: the call cancels the pending timeouts and starts one
AlertTimersAfterCallRestart(pending) == 1

\* the pending timeouts after a call: useTimeoutFn(..., 600) creates a
\* timeout of its own and starts it, those of earlier calls keep running
AlertTimersAfterCall(pending) == pending + 1

\* displayTransformationAlert(icon, text)
displayTransformationAlert(icon, text) ==
    /\ alertTimers < MaxAlertTimers
    /\ transformationIcon' = icon
    /\ transformationText' = IF Truthy(text) THEN text ELSE EmptyString
    /\ alertTimers' = AlertTimersAfterCall(alertTimers)

\* the callback of one of the useTimeoutFn(..., 600) timeouts
AlertTimerFires ==
    /\ alertTimers > 0
    /\ transformationIcon' = Undefined
    /\ transformationText' = EmptyString
    /\ alertTimers' = alertTimers - 1
    /\ last' = [op |-> "alertTimer", pending |-> alertTimers,
                icon |-> transformationIcon]

(***************************************************************************)
(* Volume                                                                  *)
(***************************************************************************)
\* x.toFixed(1) read back by parseFloat: x rounded to a multiple of 0.1
ToFixed1(x) == ((x + VolumeStep \div 2) \div VolumeStep) * VolumeStep

getVolumeIcon(v) ==
    IF v = 0 THEN Str(<<"VolumeX">>)
    ELSE IF v < FullVolume \div 2 THEN Str(<<"Volume1">>)
    ELSE Str(<<"Volume2">>)

\* `${parseFloat(volume.value.toFixed(1)) * 100}%`
VolumeText(v) == Str(<<ToFixed1(v) \div 10, "%">>)

\* mutation: the sum is stored as computed, without toFixed(1)
SteppedRaw(v, delta, err) == v + delta + err

\* parseFloat((volume.value + delta).toFixed(1)), err the error of the sum
Stepped(v, delta, err) == ToFixed1(v + delta + err)

\* watch(volume, ...): the resume record follows the volume
WatchVolume(newValue) ==
    history' = IF newValue # volume
               THEN [history EXCEPT !.volume = newValue]
               ELSE history

increaseVolume ==
    /\ \E err \in FloatErr :
          volume' = IF volume < FullVolume
                    THEN Stepped(volume, VolumeStep, err)
                    ELSE volume
    /\ WatchVolume(volume')
    /\ displayTransformationAlert(getVolumeIcon(volume'), VolumeText(volume'))
    /\ last' = [op |-> "increaseVolume", pre |-> volume]
    /\ UNCHANGED volumeCache

decreaseVolume ==
    /\ \E err \in FloatErr :
          volume' = IF volume > 0
                    THEN Stepped(volume, -VolumeStep, err)
                    ELSE volume
    /\ WatchVolume(volume')
    /\ displayTransformationAlert(getVolumeIcon(volume'), VolumeText(volume'))
    /\ last' = [op |-> "decreaseVolume", pre |-> volume]
    /\ UNCHANGED volumeCache

mute ==
    /\ volumeCache' = volume
    /\ volume' = 0
    /\ WatchVolume(volume')
    /\ displayTransformationAlert(getVolumeIcon(volume'), VolumeText(volume'))
    /\ last' = [op |-> "mute", pre |-> volume]

unmute ==
    /\ volume' = volumeCache
    /\ WatchVolume(volume')
    /\ displayTransformationAlert(getVolumeIcon(volume'), VolumeText(volume'))
    /\ last' = [op |-> "unmute", pre |-> volume]
    /\ UNCHANGED volumeCache

\* key m and the volume button: volume ? mute() : unmute()
MuteToggle == IF volume # 0 THEN mute ELSE unmute

\* wheelHandler: deltaY < 0 raises the volume, any other deltaY lowers it
wheelHandler(deltaY) == IF deltaY < 0 THEN increaseVolume ELSE decreaseVolume

\* the deltaY of a wheel event: up, down
WheelDeltas == {-1, 1}

(***************************************************************************)
(* Transport: seeking, play/pause, looping                                 *)
(***************************************************************************)
Min(a, b) == IF a < b THEN a ELSE b

\* watch(currentTime, ...): the resume record follows the position
WatchTime(newValue) ==
    history' = IF newValue # currentTime
               THEN [history EXCEPT !.time = newValue]
               ELSE history

\* mutation: a step past the end moves to the end
ForwardedClamped(time, dur, amount) == Min(time + amount, dur)

\* currentTime after forwardVideo(amount): a step past the end is dropped
Forwarded(time, dur, amount) ==
    IF time <= dur - amount THEN time + amount ELSE time

\* currentTime after rewindVideo(amount)
Rewound(time, amount) == IF time >= amount THEN time - amount ELSE 0

forwardVideo(amount) ==
    /\ currentTime' = Forwarded(currentTime, duration, amount)
    /\ WatchTime(currentTime')
    /\ displayTransformationAlert(Str(<<"FastForward">>), Str(<<amount, "s">>))
    /\ last' = [op |-> "forwardVideo", amount |-> amount, pre |-> currentTime]
    /\ UNCHANGED <<duration, paused, playing, playPending>>

rewindVideo(amount) ==
    /\ currentTime' = Rewound(currentTime, amount)
    /\ WatchTime(currentTime')
    /\ displayTransformationAlert(Str(<<"Rewind">>), Str(<<amount, "s">>))
    /\ last' = [op |-> "rewindVideo", amount |-> amount, pre |-> currentTime]
    /\ UNCHANGED <<duration, paused, playing, playPending>>

\* seekVideoSection(tenths / 10): currentTime = videoSection * duration
seekVideoSection(tenths) ==
    /\ currentTime' = (tenths * duration) \div 10
    /\ WatchTime(currentTime')
    /\ last' = [op |-> "seekVideoSection", tenths |-> tenths]
    /\ UNCHANGED <<duration, paused, playing, playPending, alertVars>>

\* playVideo up to its await: pause when playing.value, else call play(),
\* which starts playback (ok) or is rejected by the host (not ok).  The
\* handlers run on the mounted component (the first await of the
\* onBeforeMount hook ends after the mount), so videoPlayer.value is the
\* <video> element and the early return of line 193 is not taken.
PlayVideoCall ==
    IF playing
    THEN /\ paused' = TRUE
         /\ displayTransformationAlert(Str(<<"Pause">>), Undefined)
         /\ UNCHANGED playPending
    ELSE /\ playPending < MaxPlayPending
         /\ \E ok \in BOOLEAN : paused' = IF ok THEN FALSE ELSE paused
         /\ playPending' = playPending + 1
         /\ UNCHANGED alertVars

\* a click on the video or the play button, the space key
playVideo ==
    /\ PlayVideoCall
    /\ last' = [op |-> "playVideo", pre |-> playing]
    /\ UNCHANGED <<currentTime, duration, playing, history>>

\* playVideo after `await play()`, resolved or rejected (the catch is empty)
PlayVideoResumes ==
    /\ playPending > 0
    /\ playPending' = playPending - 1
    /\ displayTransformationAlert(Str(<<"Play">>), Undefined)
    /\ last' = [op |-> "playVideoResumes"]
    /\ UNCHANGED <<currentTime, duration, paused, playing, history>>

\* the element's play/pause event reaches useMediaControls
PlayingFollowsElement ==
    /\ playing # ~paused
    /\ playing' = ~paused
    /\ last' = [op |-> "playPauseEvent"]
    /\ UNCHANGED <<currentTime, duration, paused, playPending, history,
                   alertVars>>

\* playback advances: a timeupdate event
TimeUpdate(step) ==
    /\ ~paused
    /\ currentTime < duration
    /\ currentTime' = Min(currentTime + step, duration)
    /\ WatchTime(currentTime')
    /\ last' = [op |-> "timeupdate"]
    /\ UNCHANGED <<duration, paused, playing, playPending, alertVars>>

\* the element has read the metadata of its source: durationchange
MediaLoaded(d) ==
    /\ videoSrc # EmptyString
    /\ duration = 0
    /\ duration' = d
    /\ last' = [op |-> "durationchange"]
    /\ UNCHANGED <<currentTime, paused, playing, playPending, history,
                   alertVars>>

\* element.addEventListener(type, fn): a listener already there is not
\* added a second time
addEventListener(listeners, fn) ==
    IF \E i \in 1..Len(listeners) : listeners[i] = fn
    THEN listeners
    ELSE Append(listeners, fn)

removeEventListener(listeners, fn) ==
    SelectSeq(listeners, LAMBDA l : l # fn)

\* mutation: the listener is attached whatever looping.value is
LoopListenersAlwaysAdd(listeners, loopingValue) ==
    addEventListener(listeners, "loopBack")

\* the "ended" listeners after setLoopMode
LoopListeners(listeners, loopingValue) ==
    IF Truthy(loopingValue)
    THEN removeEventListener(listeners, "loopBack")
    ELSE addEventListener(listeners, "loopBack")

setLoopMode ==
    /\ endedListeners' = LoopListeners(endedListeners, looping)
    /\ looping' = Bool(~Truthy(looping))
    /\ last' = [op |-> "setLoopMode", pre |-> looping]

\* number of loopBack calls one "ended" event makes
LoopBackCalls(listeners) ==
    Cardinality({i \in 1..Len(listeners) : listeners[i] = "loopBack"})

\* playback reaches the end: the element pauses and fires "ended"; every
\* loopBack listener sets currentTime = 0 and calls play()
Ended ==
    /\ ~paused
    /\ duration > 0
    /\ currentTime = duration
    /\ IF LoopBackCalls(endedListeners) > 0
       THEN currentTime' = 0 /\ paused' = FALSE
       ELSE currentTime' = currentTime /\ paused' = TRUE
    /\ WatchTime(currentTime')
    /\ last' = [op |-> "ended", restarts |-> LoopBackCalls(endedListeners),
                pre |-> looping]
    /\ UNCHANGED <<duration, playing, playPending, alertVars>>

\* useMediaControls starts at position 0, duration 0, not playing;
\* const looping = ref<boolean>() is undefined
InitMedia ==
    /\ currentTime = 0
    /\ duration = 0
    /\ paused = TRUE
    /\ playing = FALSE
    /\ playPending = 0
    /\ looping = Undefined
    /\ endedListeners = <<>>

InitAlert ==
    /\ transformationIcon = Undefined
    /\ transformationText = Undefined
    /\ alertTimers = 0

\* the defaults of useLocalStorage<History>("history", ...)
DefaultHistory ==
    [volume |-> DefaultVolume, time |-> 0, title |-> Undefined,
     isYoutube |-> FALSE, video |-> Undefined, youtubeCode |-> Undefined]

\* the resume records an earlier run can have left in the volume field
PersistedVolumes == {[DefaultHistory EXCEPT !.volume = v] : v \in VolumeLevels}

\* onMounted: volume.value = history.value.volume
InitVolume ==
    /\ volume = history.volume
    /\ volumeCache = DefaultVolume

\* useTimeoutFn starts its timeout when it is created (immediate: true)
InitRate ==
    /\ playbackIndex = DefaultPlaybackIndex
    /\ rate = DefaultRate
    /\ uiHidden = FALSE
    /\ hideTimer = TRUE
    /\ rateCalls = 0
    /\ incCalls = 0

(***************************************************************************)
(* Opening a source: setVideoSource, the file dialog, the chooser          *)
(***************************************************************************)
\* mutation: showVideoChooser calls playVideo() whatever playing.value is
ChooserAlwaysCallsPlayVideo(playingValue) == TRUE

\* the test of line 415, if (playing.value): whether playVideo() is called
ChooserCallsPlayVideo(playingValue) == playingValue

\* showVideoChooser(): choosingVideo = true; if (playing.value) playVideo()
ShowVideoChooserBody ==
    /\ choosingVideo' = TRUE
    /\ IF ChooserCallsPlayVideo(playing)
       THEN PlayVideoCall
       ELSE UNCHANGED <<paused, playPending, alertVars>>

\* the home button and the title ("Change Video")
showVideoChooser ==
    /\ ShowVideoChooserBody
    /\ last' = [op |-> "showVideoChooser", pre |-> playing,
                pending |-> playPending]
    /\ UNCHANGED <<cliPath, startPc, opens, dialogs, videoSrc, videoTitle,
                   history, currentTime, duration, playing>>

\* the resume record loses its video from outside (the storage event of
\* useLocalStorage) and watch(() => history.value.video) runs on the
\* mounted component: if (playing.value) playVideo(); showVideoChooser().
\* playing.value changes only when the pause event arrives, so both
\* functions see the same value and both playVideo() calls pause: the
\* second pause() finds the element paused, each call shows its alert
HistoryVideoCleared ==
    /\ Truthy(history.video)
    /\ history' = [history EXCEPT !.video = Undefined]
    /\ choosingVideo' = TRUE
    /\ IF playing
       THEN /\ paused' = TRUE
            /\ IF ChooserCallsPlayVideo(playing)
               THEN /\ alertTimers + 2 <= MaxAlertTimers
                    /\ transformationIcon' = Str(<<"Pause">>)
                    /\ transformationText' = EmptyString
                    /\ alertTimers' = alertTimers + 2
               ELSE displayTransformationAlert(Str(<<"Pause">>), Undefined)
            /\ UNCHANGED playPending
       ELSE IF ChooserCallsPlayVideo(playing)
            THEN PlayVideoCall
            ELSE UNCHANGED <<paused, playPending, alertVars>>
    /\ last' = [op |-> "historyVideoCleared", pre |-> playing,
                pending |-> playPending]
    /\ UNCHANGED <<cliPath, startPc, opens, dialogs, videoSrc, videoTitle,
                   currentTime, duration, playing>>

\* mutation: every assignment of videoSrc puts the position back to 0
PositionAfterLoadReset(old, new, time) == 0

\* the position after videoSrc.value = new, `old` being its value before
\* and `time` the position asked for: assigning the value the ref holds
\* triggers nothing; the first load of the element (no source before)
\* keeps the position asked for as its start position; a load over a
\* source the element holds puts the position back to 0
PositionAfterLoad(old, new, time) ==
    IF new = old \/ old = EmptyString THEN time ELSE 0

\* lines 244-250 of setVideoSource, from resume record h and position
\* `time`: the record and the refs take the new source; when videoSrc
\* changes the element loads it, and a load over an earlier source pauses
\* the element and resets its position and duration; the watchers of
\* videoTitle and currentTime copy what changed into the resume record
SetVideoSourceBody(filepath, title, h, time) ==
    LET src == Str(convertFileSrc(filepath))
    IN  /\ choosingVideo' = FALSE
        /\ videoTitle' = title
        /\ videoSrc' = src
        /\ currentTime' = PositionAfterLoad(videoSrc, src, time)
        /\ duration' = IF src = videoSrc THEN duration ELSE 0
        /\ paused' = IF src = videoSrc \/ videoSrc = EmptyString
                     THEN paused
                     ELSE TRUE
        /\ history' = [h EXCEPT
                         !.video = Str(filepath),
                         !.title = IF title # videoTitle THEN title ELSE @,
                         !.time  = IF currentTime' # time
                                   THEN currentTime'
                                   ELSE @]

\* setVideoSource(filepath, title) up to its first await, called by `by`
\* after the caller left the resume record as h and the position as time
SetVideoSourceCall(filepath, title, by, h, time) ==
    /\ Len(opens) < MaxOpens
    /\ IF Truthy(title)
       THEN /\ SetVideoSourceBody(filepath, title, h, time)
            /\ opens' = Append(opens, [filepath |-> filepath, title |-> title,
                                       by |-> by, pc |-> "extname2"])
       ELSE /\ opens' = Append(opens, [filepath |-> filepath, title |-> title,
                                       by |-> by, pc |-> "basename"])
            /\ history' = h
            /\ currentTime' = time
            /\ UNCHANGED <<choosingVideo, videoTitle, videoSrc, duration,
                           paused>>

\* opens without its i-th call
Finished(i) == SubSeq(opens, 1, i - 1) \o SubSeq(opens, i + 1, Len(opens))

\* title = await basename(filepath)
OpenBasename(i) ==
    /\ opens[i].pc = "basename"
    /\ opens' = [opens EXCEPT ![i].title = Str(basename(opens[i].filepath)),
                              ![i].pc = "extname1"]
    /\ last' = [op |-> "setVideoSource", at |-> "basename"]
    /\ UNCHANGED <<cliPath, startPc, dialogs, choosingVideo, videoSrc,
                   videoTitle, history, mediaVars, alertVars>>

\* extension = await extname(filepath): rejected, the call ends there;
\* else title.replace(`.${extension}`, "") and lines 244-250
OpenExtname1(i) ==
    /\ opens[i].pc = "extname1"
    /\ LET extension == extname(opens[i].filepath)
           title == Str(replace(opens[i].title.s, <<".">> \o extension, <<>>))
       IN  IF extension = Rejected
           THEN /\ opens' = Finished(i)
                /\ last' = [op |-> "setVideoSource", at |-> "rejected",
                            call |-> opens[i]]
                /\ UNCHANGED <<choosingVideo, videoSrc, videoTitle, history,
                               currentTime, duration, paused>>
           ELSE /\ SetVideoSourceBody(opens[i].filepath, title, history,
                                       currentTime)
                /\ opens' = [opens EXCEPT ![i].title = title,
                                          ![i].pc = "extname2"]
                /\ last' = [op |-> "setVideoSource", at |-> "extname1"]
    /\ UNCHANGED <<cliPath, startPc, dialogs, playing, playPending, alertVars>>

\* fileExtension = await extname(filepath) on the asset URL: rejected,
\* the call ends there; else the warning, then playVideo()
OpenExtname2(i) ==
    /\ opens[i].pc = "extname2"
    /\ opens' = Finished(i)
    /\ IF extname(convertFileSrc(opens[i].filepath)) = Rejected
       THEN /\ last' = [op |-> "setVideoSource", at |-> "rejected",
                        call |-> opens[i]]
            /\ UNCHANGED <<paused, playPending, alertVars>>
       ELSE /\ PlayVideoCall
            /\ last' = [op |-> "setVideoSource", at |-> "done",
                        call |-> opens[i], pre |-> playing]
    /\ UNCHANGED <<cliPath, startPc, dialogs, choosingVideo, videoSrc,
                   videoTitle, history, currentTime, duration, playing>>

\* showVideoDialog(): open({...}) shows the file dialog
showVideoDialog ==
    /\ dialogs < MaxDialogs
    /\ dialogs' = dialogs + 1
    /\ last' = [op |-> "showVideoDialog"]
    /\ UNCHANGED <<cliPath, startPc, opens, choosingVideo, videoSrc,
                   videoTitle, history, mediaVars, alertVars>>

\* the dialog closes with the file picked, or with null when cancelled
DialogResolves(videoPath) ==
    /\ dialogs > 0
    /\ dialogs' = dialogs - 1
    /\ IF Truthy(videoPath)
       THEN SetVideoSourceCall(videoPath.s, Undefined, "dialog",
                               [history EXCEPT !.isYoutube = FALSE],
                               currentTime)
       ELSE UNCHANGED <<opens, choosingVideo, videoSrc, videoTitle, history,
                        currentTime, duration, paused>>
    /\ last' = [op |-> "dialogResolves", videoPath |-> videoPath]
    /\ UNCHANGED <<cliPath, startPc, playing, playPending, alertVars>>

\* typeof previousTime === "number" ? previousTime : 0
ResumeTime(previousTime) == IF previousTime \in Int THEN previousTime ELSE 0

\* continueFromPrevious(): the @previous event of the VideoChooser, which
\* is rendered while choosingVideo.  currentTime.value takes the saved
\* time (the watcher of currentTime writes the same value back into the
\* record), then setVideoSource(previousVideo, previousTitle) runs, or
\* showVideoDialog() when the record has no video
continueFromPrevious ==
    /\ choosingVideo
    /\ LET previousVideo == history.video
           previousTime == history.time
           previousTitle == history.title
       IN  IF Truthy(previousVideo)
           THEN /\ SetVideoSourceCall(previousVideo.s, previousTitle,
                                      "previous", history,
                                      ResumeTime(previousTime))
                /\ UNCHANGED dialogs
           ELSE /\ dialogs < MaxDialogs
                /\ dialogs' = dialogs + 1
                /\ currentTime' = ResumeTime(previousTime)
                /\ UNCHANGED <<opens, choosingVideo, videoSrc, videoTitle,
                               history, duration, paused>>
    /\ last' = [op |-> "continueFromPrevious", pre |-> history,
                src |-> videoSrc, opens |-> Len(opens), dialogs |-> dialogs]
    /\ UNCHANGED <<cliPath, startPc, playing, playPending, alertVars>>

(***************************************************************************)
(* YouTube downloads: the "video-downloaded" listener, saveYouTubeVideo    *)
(***************************************************************************)
\* str.indexOf(pattern), 0-based, -1 when pattern does not occur
indexOf(str, pattern) ==
    LET n == Len(pattern)
        hits == {i \in 1..(Len(str) - n + 1) :
                    SubSeq(str, i, i + n - 1) = pattern}
    IN  IF hits = {} THEN -1
        ELSE (CHOOSE h \in hits : \A g \in hits : h <= g) - 1

\* temp.substring(0, temp.indexOf(`[${code}]`) - 1): a negative end
\* counts as 0
DownloadTitle(temp, code) ==
    LET index == indexOf(temp, <<"[">> \o code \o <<"]">>)
    IN  substring(temp, 0, IF index - 1 < 0 THEN 0 ELSE index - 1)

\* the listener of "video-downloaded" up to its await:
\* history.value.isYoutube = true, then basename(payload.path) is awaited
VideoDownloaded(payload) ==
    /\ Len(downloads) < MaxDownloads
    /\ downloads' = Append(downloads, payload)
    /\ history' = [history EXCEPT !.isYoutube = TRUE]
    /\ last' = [op |-> "videoDownloaded", at |-> "event"]
    /\ UNCHANGED <<sourceVars, mediaVars, alertVars, saves>>

\* the listener after basename: the title is cut out of the file name,
\* history.value.youtubeCode = payload.code, setVideoSource(path, title)
DownloadBasename(i) ==
    LET payload == downloads[i]
        title == Str(DownloadTitle(basename(payload.path), payload.code))
    IN  /\ downloads' = SubSeq(downloads, 1, i - 1)
                           \o SubSeq(downloads, i + 1, Len(downloads))
        /\ SetVideoSourceCall(payload.path, title, "youtube",
                              [history EXCEPT !.youtubeCode =
                                                  Str(payload.code)],
                              currentTime)
        /\ last' = [op |-> "videoDownloaded", at |-> "basename"]
        /\ UNCHANGED <<cliPath, startPc, dialogs, playing, playPending,
                       alertVars, saves>>

\* whether saveYouTubeVideo goes on after the test of lastYoutubeCode:
\* the if of lines 304-310 adds the warning and has no return
SaveContinues(lastYoutubeCode) == TRUE

\* add(options) called by a handler: the entry is pushed
AddBody(options) ==
    /\ Cardinality(issued) < MaxAdds
    /\ \E uniqueId \in uuid :
          /\ notifications' = AddPush(notifications, uniqueId, options)
          /\ issued' = issued \cup {uniqueId}
          /\ added' = Append(added, uniqueId)

\* saves without its i-th call
SaveFinished(i) == SubSeq(saves, 1, i - 1) \o SubSeq(saves, i + 1, Len(saves))

\* saveYouTubeVideo up to its first await, downloadDir(): a click on the
\* save button, which is rendered while history.isYoutube
saveYouTubeVideo ==
    /\ history.isYoutube
    /\ Len(saves) < MaxSaves
    /\ LET lastYoutubeCode == history.youtubeCode
       IN  /\ IF ~Truthy(lastYoutubeCode)
              THEN AddBody([text |-> "You haven't downloaded a YouTube video yet",
                            type |-> "warning", timeout |-> Num(5000)])
              ELSE UNCHANGED notifVars
           /\ saves' = IF SaveContinues(lastYoutubeCode)
                       THEN Append(saves, [code |-> lastYoutubeCode,
                                           pc |-> "downloadDir"])
                       ELSE saves
           /\ last' = [op |-> "saveYouTubeVideo", at |-> "call",
                       code |-> lastYoutubeCode, pre |-> notifications]
    /\ UNCHANGED downloads

\* downloadDir() answers, then join(downloadDirectory, ...) is awaited
SaveDownloadDir(i) ==
    /\ saves[i].pc = "downloadDir"
    /\ saves' = [saves EXCEPT ![i].pc = "join"]
    /\ last' = [op |-> "saveYouTubeVideo", at |-> "downloadDir"]
    /\ UNCHANGED <<notifVars, downloads>>

\* join answers, then the save dialog is shown
SaveJoin(i) ==
    /\ saves[i].pc = "join"
    /\ saves' = [saves EXCEPT ![i].pc = "save"]
    /\ last' = [op |-> "saveYouTubeVideo", at |-> "join"]
    /\ UNCHANGED <<notifVars, downloads>>

\* the save dialog answers: without a path the call returns, else
\* invoke("save_youtube_video", { code: lastYoutubeCode, pathToSave })
SaveDialogResolves(i, filePath) ==
    /\ saves[i].pc = "save"
    /\ IF Truthy(filePath)
       THEN /\ saves' = [saves EXCEPT ![i].pc = "invoke"]
            /\ last' = [op |-> "saveYouTubeVideo", at |-> "invoke",
                        code |-> saves[i].code]
       ELSE /\ saves' = SaveFinished(i)
            /\ last' = [op |-> "saveYouTubeVideo", at |-> "cancelled"]
    /\ UNCHANGED <<notifVars, downloads>>

\* the notification for what save_youtube_video answered
SaveNotification(result) ==
    IF Truthy(result)
    THEN [text |-> result.s, type |-> "error", timeout |-> Num(10000)]
    ELSE [text |-> "Saved successfully", type |-> "success",
          timeout |-> Num(3000)]

\* save_youtube_video answers: .then(result => add(...))
SaveInvokeResolves(i, result) ==
    /\ saves[i].pc = "invoke"
    /\ AddBody(SaveNotification(result))
    /\ saves' = SaveFinished(i)
    /\ last' = [op |-> "saveYouTubeVideo", at |-> "result",
                result |-> result, pre |-> notifications]
    /\ UNCHANGED downloads

(***************************************************************************)
(* The Player's listeners on window: onMounted, onUnmounted                *)
(***************************************************************************)
EventTypes == {"keydown", "keyup", "mousemove", "wheel"}

\* the function a Player instance registers for an event type: each
\* instance creates its own keyDownEventHandler, keyUpEventHandler,
\* mouseMoveHandler and wheelHandler in its setup
Handler(instance, type) == [instance |-> instance, type |-> type]

\* the listeners after onUnmounted: keydown, keyup and mousemove are
\* removed, the fourth call is window.addEventListener("wheel", ...)
PlayerUnmountListeners(listeners, instance) ==
    [type \in EventTypes |->
        IF type = "wheel"
        THEN addEventListener(listeners[type], Handler(instance, type))
        ELSE removeEventListener(listeners[type], Handler(instance, type))]

\* the listeners after onMounted
PlayerMountListeners(listeners, instance) ==
    [type \in EventTypes |->
        addEventListener(listeners[type], Handler(instance, type))]

\* the Player is left: onUnmounted of the mounted instance
PlayerOnUnmounted ==
    /\ mounted
    /\ mounted' = FALSE
    /\ windowListeners' = PlayerUnmountListeners(windowListeners, mounts)
    /\ last' = [op |-> "playerUnmounted", instance |-> mounts]
    /\ UNCHANGED <<mounts, volumeVars, alertVars, rateVars, history>>

\* the Player is entered again: a new instance is set up with its own refs
\* and timers, then onMounted registers its listeners and takes the volume
\* from the resume record
PlayerOnMounted ==
    /\ ~mounted
    /\ mounts < MaxMounts
    /\ mounted' = TRUE
    /\ mounts' = mounts + 1
    /\ windowListeners' = PlayerMountListeners(windowListeners, mounts + 1)
    /\ volume' = history.volume
    /\ volumeCache' = DefaultVolume
    /\ transformationIcon' = Undefined
    /\ transformationText' = Undefined
    /\ alertTimers' = 0
    /\ uiHidden' = FALSE
    /\ hideTimer' = TRUE
    /\ last' = [op |-> "playerMounted", instance |-> mounts + 1]
    /\ UNCHANGED <<playbackIndex, rate, rateCalls, incCalls, history>>

\* whether the mounted instance's listener for the event type is on window;
\* the listeners unmounted instances have left there act on the refs of
\* those instances only
Listening(type) ==
    /\ mounted
    /\ \E i \in 1..Len(windowListeners[type]) :
          windowListeners[type][i] = Handler(mounts, type)

\* a wheel event on window
WheelEvent(deltaY) ==
    /\ Listening("wheel")
    /\ wheelHandler(deltaY)

\* a mousemove event on window
MouseMoveEvent ==
    /\ Listening("mousemove")
    /\ mouseMoveHandler

(***************************************************************************)
(* Startup: the onBeforeMount hook                                         *)
(***************************************************************************)
\* the hook reaches showVideoChooser() on its last line
StartupShowsChooser ==
    /\ startPc' = "chooser"
    /\ ShowVideoChooserBody
    /\ UNCHANGED <<cliPath, opens, dialogs, videoSrc, videoTitle, history,
                   currentTime, duration, playing>>

StartupWaits(pc) ==
    /\ startPc' = pc
    /\ UNCHANGED <<cliPath, opens, dialogs, choosingVideo, videoSrc,
                   videoTitle, history, mediaVars, alertVars>>

\* getMatches() answers: videoPath = matches.args["videoPath"].value, and
\* a falsy videoPath skips exists()
StartupMatches ==
    /\ startPc = "getMatches"
    /\ IF Truthy(cliPath) THEN StartupWaits("exists") ELSE StartupShowsChooser
    /\ last' = [op |-> "startup", at |-> "getMatches"]

\* exists(videoPath) answers
StartupExists ==
    /\ startPc = "exists"
    /\ IF cliPath.s \in ExistingFiles
       THEN StartupWaits("extname")
       ELSE StartupShowsChooser
    /\ last' = [op |-> "startup", at |-> "exists"]

\* VALID_EXTENSIONS.includes(
\*     extension.toLowerCase().substring(1, extension.toLowerCase().length))
CliExtensionAllowed(extension) ==
    includes(VALID_EXTENSIONS,
             substring(toLowerCase(extension), 1, Len(toLowerCase(extension))))

\* extname(videoPath) answers, or its promise is rejected and the hook
\* ends there; an allowed extension opens the file, else the chooser
StartupExtname ==
    /\ startPc = "extname"
    /\ LET extension == extname(cliPath.s)
       IN  IF extension = Rejected
           THEN StartupWaits("rejected")
           ELSE IF CliExtensionAllowed(extension)
           THEN /\ startPc' = "opened"
                /\ SetVideoSourceCall(cliPath.s, Undefined, "cli", history,
                                      currentTime)
                /\ UNCHANGED <<cliPath, dialogs, playing, playPending,
                               alertVars>>
           ELSE StartupShowsChooser
    /\ last' = [op |-> "startup", at |-> "extname"]

\* the hook has registered its listener and waits for getMatches(); the
\* refs hold what they are created with
InitSource(arg) ==
    /\ cliPath = arg
    /\ startPc = "getMatches"
    /\ opens = <<>>
    /\ dialogs = 0
    /\ choosingVideo = FALSE
    /\ videoSrc = EmptyString
    /\ videoTitle = Undefined

(***************************************************************************)
(* useWindowClose                                                          *)
(***************************************************************************)
\* an instance that has not been created yet
NoHelper ==
    [stage |-> "unused", isRef |-> FALSE, atSetup |-> FALSE, value |-> FALSE,
     lookup |-> FALSE, listening |-> FALSE]

\* mutation: the flag is read once, when the listener is registered
BlurDisabledAtSetup(h) == h.atSetup

\* the test of the blur listener: disableBlur.value of a ref as it is when
\* the event fires, else the boolean that was passed
BlurDisabled(h) == IF h.isRef THEN h.value ELSE h.atSetup

\* window.removeEventListener("keydown", eventHandler) of instance i
Unmounted(listeners, i) == listeners \ {i}

\* a component is between its setup and its mounted hook: the render is
\* synchronous, so no event, timer or promise callback runs in between
Rendering == \E i \in Instances : helpers[i].stage = "created"

\* useWindowClose(label, disableBlur) called in the setup of a component:
\* the closures are created and getByLabel(label) is asked for the window
useWindowClose(i, disableBlur) ==
    /\ ~Rendering
    /\ helpers[i].stage = "unused"
    /\ i > 1 => helpers[i - 1].stage # "unused"
    /\ helpers' = [helpers EXCEPT ![i] =
                      [stage |-> "created", isRef |-> disableBlur.isRef,
                       atSetup |-> disableBlur.value,
                       value |-> disableBlur.value,
                       lookup |-> TRUE, listening |-> FALSE]]
    /\ last' = [op |-> "useWindowClose"]
    /\ UNCHANGED <<keydownListeners, winOpen, closing>>

\* getByLabel(label).then(result => result?.listen("tauri://blur", ...)):
\* the listener is registered when the window exists
BlurLookupResolves(i) ==
    /\ ~Rendering
    /\ helpers[i].lookup
    /\ helpers' = [helpers EXCEPT ![i].lookup = FALSE,
                                  ![i].listening = winOpen]
    /\ last' = [op |-> "listen"]
    /\ UNCHANGED <<keydownListeners, winOpen, closing>>

\* onMounted: window.addEventListener("keydown", eventHandler)
onMounted(i) ==
    /\ helpers[i].stage = "created"
    /\ helpers' = [helpers EXCEPT ![i].stage = "mounted"]
    /\ keydownListeners' = keydownListeners \cup {i}
    /\ last' = [op |-> "onMounted"]
    /\ UNCHANGED <<winOpen, closing>>

\* onUnmounted: the keydown listener is removed; the unlisten function of
\* the blur listener is not kept, so that listener stays
onUnmounted(i) ==
    /\ ~Rendering
    /\ helpers[i].stage = "mounted"
    /\ helpers' = [helpers EXCEPT ![i].stage = "unmounted"]
    /\ keydownListeners' = Unmounted(keydownListeners, i)
    /\ last' = [op |-> "onUnmounted"]
    /\ UNCHANGED <<winOpen, closing>>

\* the caller of instance i assigns its ref: disableBlur.value = b
SetDisableBlur(i, b) ==
    /\ ~Rendering
    /\ helpers[i].stage = "mounted"
    /\ helpers[i].isRef
    /\ helpers[i].value # b
    /\ helpers' = [helpers EXCEPT ![i].value = b]
    /\ last' = [op |-> "setDisableBlur"]
    /\ UNCHANGED <<keydownListeners, winOpen, closing>>

\* the instances whose blur listener calls closeWindow() on an event
BlurCallers ==
    {i \in Instances : helpers[i].listening /\ ~BlurDisabled(helpers[i])}

\* the labelled window loses focus: "tauri://blur" reaches every listener
Blur ==
    /\ ~Rendering
    /\ winOpen
    /\ closing + Cardinality(BlurCallers) <= MaxClosing
    /\ closing' = closing + Cardinality(BlurCallers)
    /\ last' = [op |-> "blur", callers |-> BlurCallers, pre |-> helpers]
    /\ UNCHANGED <<helpers, keydownListeners, winOpen>>

\* the instances whose eventHandler calls closeWindow() for e.code
KeydownCallers(code) ==
    IF code = "Escape" THEN keydownListeners ELSE {}

\* a keydown event on window reaches every eventHandler listening
Keydown(code) ==
    /\ ~Rendering
    /\ closing + Cardinality(KeydownCallers(code)) <= MaxClosing
    /\ closing' = closing + Cardinality(KeydownCallers(code))
    /\ last' = [op |-> "keydown", code |-> code,
                callers |-> KeydownCallers(code), pre |-> helpers]
    /\ UNCHANGED <<helpers, keydownListeners, winOpen>>

\* closeWindow after `await getByLabel(label)`: window?.close()
closeWindow ==
    /\ ~Rendering
    /\ closing > 0
    /\ closing' = closing - 1
    /\ winOpen' = FALSE
    /\ last' = [op |-> "closeWindow", existed |-> winOpen]
    /\ UNCHANGED <<helpers, keydownListeners>>

\* no useWindowClose call yet; `open`: a window with the label exists
InitWindow(open) ==
    /\ helpers = [i \in Instances |-> NoHelper]
    /\ keydownListeners = {}
    /\ winOpen = open
    /\ closing = 0

\* no "video-downloaded" event and no saveYouTubeVideo call yet
InitYoutube ==
    /\ downloads = <<>>
    /\ saves = <<>>

\* the first Player instance is mounted: onMounted has registered its
\* four listeners on window
InitLifecycle ==
    /\ mounted = TRUE
    /\ mounts = 1
    /\ windowListeners = [type \in EventTypes |-> <<Handler(1, type)>>]

\* the state the player is mounted in, with resume record h
InitPlayer(h, arg) ==
    /\ InitNotif
    /\ InitRate
    /\ InitAlert
    /\ history = h
    /\ InitVolume
    /\ InitMedia
    /\ InitSource(arg)
    /\ InitYoutube
    /\ InitLifecycle
    /\ last = NoCall

InitWith(h, arg) == InitPlayer(h, arg) /\ InitWindow(TRUE)

\* a first run: nothing persisted yet
Init == InitWith(DefaultHistory, Null)

\* a run that finds the volume of an earlier run in the resume record
InitPersistedVolume == \E h \in PersistedVolumes : InitWith(h, Null)

\* FileMp4 picked in the file dialog after a startup without argument:
\* setVideoSource has run to its end, play() has resolved, its event has
\* arrived and the Play alert has been cleared
SourcePlaying ==
    /\ cliPath = Null
    /\ startPc = "chooser"
    /\ opens = <<>>
    /\ dialogs = 0
    /\ choosingVideo = FALSE
    /\ videoSrc = Str(convertFileSrc(FileMp4))
    /\ videoTitle = Str(<<"a">>)
    /\ history = [DefaultHistory EXCEPT !.video = Str(FileMp4),
                                        !.title = Str(<<"a">>)]
    /\ currentTime = 0
    /\ duration = 0
    /\ paused = FALSE
    /\ playing = TRUE
    /\ playPending = 0
    /\ transformationIcon = Undefined
    /\ transformationText = EmptyString
    /\ alertTimers = 0

InitPlaying ==
    /\ SourcePlaying
    /\ InitNotif
    /\ InitRate
    /\ InitVolume
    /\ looping = Undefined
    /\ endedListeners = <<>>
    /\ InitWindow(TRUE)
    /\ InitYoutube
    /\ InitLifecycle
    /\ last = NoCall

\* a first run started with any of the command lines
InitCommandLine == \E arg \in CliArgs : InitWith(DefaultHistory, arg)

\* what the handlers of each subsystem leave alone
notNotif ==
    <<rateVars, alertVars, volumeVars, mediaVars, loopVars, sourceVars,
      windowVars, youtubeVars, lifecycleVars, history>>

notRate ==
    <<notifVars, alertVars, volumeVars, mediaVars, loopVars, sourceVars,
      windowVars, youtubeVars, lifecycleVars, history>>

notVolume ==
    <<notifVars, rateVars, mediaVars, loopVars, sourceVars, windowVars,
      youtubeVars, lifecycleVars>>

notMedia ==
    <<notifVars, rateVars, volumeVars, sourceVars, windowVars, youtubeVars,
      lifecycleVars>>

notSource ==
    <<notifVars, rateVars, volumeVars, loopVars, windowVars, youtubeVars,
      lifecycleVars>>

notWindow ==
    <<notifVars, rateVars, alertVars, volumeVars, mediaVars, loopVars,
      sourceVars, youtubeVars, lifecycleVars, history>>

NextNotif ==
    \/ \E options \in Options :
          add(options) /\ UNCHANGED notNotif
    \/ \E id \in UUIDs \cup {NoSuchId} :
          remove(id) /\ UNCHANGED notNotif

SpecNotif == Init /\ [][NextNotif]_vars

NextRate ==
    \/ \E direction \in Directions :
          changePlayrate(direction) /\ UNCHANGED notRate
    \/ HideTimerFires /\ UNCHANGED notRate

SpecRate == Init /\ [][NextRate]_vars

NextVolume ==
    \/ increaseVolume /\ UNCHANGED notVolume
    \/ decreaseVolume /\ UNCHANGED notVolume
    \/ \E deltaY \in WheelDeltas : wheelHandler(deltaY) /\ UNCHANGED notVolume
    \/ MuteToggle /\ UNCHANGED notVolume
    \/ AlertTimerFires /\ UNCHANGED <<notVolume, volumeVars, history>>

SpecVolume == InitPersistedVolume /\ [][NextVolume]_vars

\* a timeout that was started runs out: the event loop calls its callback
SpecVolumeFair ==
    /\ SpecVolume
    /\ WF_vars(AlertTimerFires
                  /\ UNCHANGED <<notVolume, volumeVars, history>>)

NextMedia ==
    \/ \E amount \in SeekAmounts :
          forwardVideo(amount) /\ UNCHANGED <<notMedia, loopVars>>
    \/ \E amount \in SeekAmounts :
          rewindVideo(amount) /\ UNCHANGED <<notMedia, loopVars>>
    \/ \E tenths \in NUM_KEYS :
          seekVideoSection(tenths) /\ UNCHANGED <<notMedia, loopVars>>
    \/ playVideo /\ UNCHANGED <<notMedia, loopVars>>
    \/ PlayVideoResumes /\ UNCHANGED <<notMedia, loopVars>>
    \/ PlayingFollowsElement /\ UNCHANGED <<notMedia, loopVars>>
    \/ \E step \in TimeSteps : TimeUpdate(step) /\ UNCHANGED <<notMedia, loopVars>>
    \/ \E d \in MediaDurations : MediaLoaded(d) /\ UNCHANGED <<notMedia, loopVars>>
    \/ setLoopMode /\ UNCHANGED <<notMedia, mediaVars, alertVars, history>>
    \/ Ended /\ UNCHANGED <<notMedia, endedListeners, looping>>
    \/ AlertTimerFires /\ UNCHANGED <<notMedia, mediaVars, loopVars, history>>

\* the transport is studied from the state SpecSource reaches once the
\* user has picked FileMp4 in the file dialog of a first run
SpecMedia == InitPlaying /\ [][NextMedia]_vars

NextSource ==
    \/ StartupMatches /\ UNCHANGED notSource
    \/ StartupExists /\ UNCHANGED notSource
    \/ StartupExtname /\ UNCHANGED notSource
    \/ \E i \in 1..Len(opens) : OpenBasename(i) /\ UNCHANGED notSource
    \/ \E i \in 1..Len(opens) : OpenExtname1(i) /\ UNCHANGED notSource
    \/ \E i \in 1..Len(opens) : OpenExtname2(i) /\ UNCHANGED notSource
    \/ showVideoChooser /\ UNCHANGED notSource
    \/ showVideoDialog /\ UNCHANGED notSource
    \/ \E f \in DialogFiles : DialogResolves(Str(f)) /\ UNCHANGED notSource
    \/ DialogResolves(Null) /\ UNCHANGED notSource
    \/ playVideo /\ UNCHANGED <<notSource, sourceVars>>
    \/ PlayVideoResumes /\ UNCHANGED <<notSource, sourceVars>>
    \/ PlayingFollowsElement /\ UNCHANGED <<notSource, sourceVars>>
    \/ AlertTimerFires
          /\ UNCHANGED <<notSource, sourceVars, mediaVars, history>>

SpecSource == InitCommandLine /\ [][NextSource]_vars

\* the time a resume record of an earlier run can hold, in seconds
SavedTimes == {0, 7}

\* the resume records a run can find: none, or FileMp4 left at a time
ResumeRecords ==
    {DefaultHistory} \cup
    {[DefaultHistory EXCEPT !.video = Str(FileMp4), !.title = Str(<<"a">>),
                            !.time = t] : t \in SavedTimes}

\* the duration (seconds) of the media such a run loads
ResumeDurations == {10}

\* a run without command line argument that finds a resume record
InitResume == \E h \in ResumeRecords : InitWith(h, Null)

NextResume ==
    \/ StartupMatches /\ UNCHANGED notSource
    \/ continueFromPrevious /\ UNCHANGED notSource
    \/ \E i \in 1..Len(opens) : OpenBasename(i) /\ UNCHANGED notSource
    \/ \E i \in 1..Len(opens) : OpenExtname1(i) /\ UNCHANGED notSource
    \/ \E i \in 1..Len(opens) : OpenExtname2(i) /\ UNCHANGED notSource
    \/ showVideoChooser /\ UNCHANGED notSource
    \/ \E f \in DialogFiles : DialogResolves(Str(f)) /\ UNCHANGED notSource
    \/ DialogResolves(Null) /\ UNCHANGED notSource
    \/ PlayVideoResumes /\ UNCHANGED <<notSource, sourceVars>>
    \/ PlayingFollowsElement /\ UNCHANGED <<notSource, sourceVars>>
    \/ \E d \in ResumeDurations :
          MediaLoaded(d) /\ UNCHANGED <<notSource, sourceVars>>
    \/ \E step \in TimeSteps :
          TimeUpdate(step) /\ UNCHANGED <<notSource, sourceVars>>
    \/ AlertTimerFires
          /\ UNCHANGED <<notSource, sourceVars, mediaVars, history>>

SpecResume == InitResume /\ [][NextResume]_vars

NextChooser ==
    \/ showVideoChooser /\ UNCHANGED notSource
    \/ HistoryVideoCleared /\ UNCHANGED notSource
    \/ continueFromPrevious /\ UNCHANGED notSource
    \/ \E i \in 1..Len(opens) : OpenBasename(i) /\ UNCHANGED notSource
    \/ \E i \in 1..Len(opens) : OpenExtname1(i) /\ UNCHANGED notSource
    \/ \E i \in 1..Len(opens) : OpenExtname2(i) /\ UNCHANGED notSource
    \/ \E f \in DialogFiles : DialogResolves(Str(f)) /\ UNCHANGED notSource
    \/ DialogResolves(Null) /\ UNCHANGED notSource
    \/ playVideo /\ UNCHANGED <<notSource, sourceVars>>
    \/ PlayVideoResumes /\ UNCHANGED <<notSource, sourceVars>>
    \/ PlayingFollowsElement /\ UNCHANGED <<notSource, sourceVars>>
    \/ AlertTimerFires
          /\ UNCHANGED <<notSource, sourceVars, mediaVars, history>>

\* the chooser over a loaded source is studied from the state SpecSource
\* reaches once the user has picked FileMp4 in the file dialog
SpecChooser == InitPlaying /\ [][NextChooser]_vars

NextAutoHide ==
    \/ StartupMatches /\ UNCHANGED notSource
    \/ \E direction \in Directions :
          changePlayrate(direction) /\ UNCHANGED notRate
    \/ mouseMoveHandler /\ UNCHANGED notRate
    \/ HideTimerFires /\ UNCHANGED notRate

\* the controls before and after the startup hook shows the chooser
SpecAutoHide == Init /\ [][NextAutoHide]_vars

\* what the handlers of the YouTube downloads leave alone
notSave ==
    <<rateVars, alertVars, volumeVars, mediaVars, loopVars, sourceVars,
      windowVars, lifecycleVars, history>>

notDownload ==
    <<notifVars, rateVars, volumeVars, loopVars, windowVars, lifecycleVars>>

NextSave ==
    \/ \E payload \in YoutubePayloads :
          VideoDownloaded(payload) /\ UNCHANGED notDownload
    \/ \E i \in 1..Len(downloads) :
          DownloadBasename(i) /\ UNCHANGED notDownload
    \/ \E i \in 1..Len(opens) : OpenExtname2(i) /\ UNCHANGED notSource
    \/ saveYouTubeVideo /\ UNCHANGED notSave
    \/ \E i \in 1..Len(saves) : SaveDownloadDir(i) /\ UNCHANGED notSave
    \/ \E i \in 1..Len(saves) : SaveJoin(i) /\ UNCHANGED notSave
    \/ \E i \in 1..Len(saves), filePath \in SavePaths :
          SaveDialogResolves(i, filePath) /\ UNCHANGED notSave
    \/ \E i \in 1..Len(saves), result \in SaveResults :
          SaveInvokeResolves(i, result) /\ UNCHANGED notSave

\* a first run without command line argument: YouTube downloads arrive and
\* the save button is used
SpecSave == Init /\ [][NextSave]_vars

NextProvenance ==
    \/ StartupMatches /\ UNCHANGED notSource
    \/ \E payload \in YoutubePayloads :
          VideoDownloaded(payload) /\ UNCHANGED notDownload
    \/ \E i \in 1..Len(downloads) :
          DownloadBasename(i) /\ UNCHANGED notDownload
    \/ \E i \in 1..Len(opens) : OpenBasename(i) /\ UNCHANGED notSource
    \/ \E i \in 1..Len(opens) : OpenExtname1(i) /\ UNCHANGED notSource
    \/ \E i \in 1..Len(opens) : OpenExtname2(i) /\ UNCHANGED notSource
    \/ showVideoDialog /\ UNCHANGED notSource
    \/ \E f \in DialogFiles : DialogResolves(Str(f)) /\ UNCHANGED notSource
    \/ DialogResolves(Null) /\ UNCHANGED notSource
    \/ PlayVideoResumes /\ UNCHANGED <<notSource, sourceVars>>
    \/ PlayingFollowsElement /\ UNCHANGED <<notSource, sourceVars>>

\* a first run without command line argument: sources are opened by the
\* file dialog and by YouTube downloads
SpecProvenance == Init /\ [][NextProvenance]_vars

\* what mounting and unmounting the Player leave alone
notLifecycle ==
    <<notifVars, mediaVars, loopVars, sourceVars, windowVars, youtubeVars>>

NextMount ==
    \/ PlayerOnUnmounted /\ UNCHANGED notLifecycle
    \/ PlayerOnMounted /\ UNCHANGED notLifecycle
    \/ \E deltaY \in WheelDeltas : WheelEvent(deltaY) /\ UNCHANGED notVolume
    \/ MouseMoveEvent /\ UNCHANGED notRate
    \/ HideTimerFires /\ UNCHANGED notRate
    \/ AlertTimerFires /\ UNCHANGED <<notVolume, volumeVars, history>>

\* the Player is left and entered again
SpecMount == Init /\ [][NextMount]_vars

NextWindow ==
    \/ \E i \in Instances, disableBlur \in DisableBlurArgs :
          useWindowClose(i, disableBlur) /\ UNCHANGED notWindow
    \/ \E i \in Instances : BlurLookupResolves(i) /\ UNCHANGED notWindow
    \/ \E i \in Instances : onMounted(i) /\ UNCHANGED notWindow
    \/ \E i \in Instances : onUnmounted(i) /\ UNCHANGED notWindow
    \/ \E i \in Instances, b \in BOOLEAN :
          SetDisableBlur(i, b) /\ UNCHANGED notWindow
    \/ Blur /\ UNCHANGED notWindow
    \/ \E code \in KeyCodes : Keydown(code) /\ UNCHANGED notWindow
    \/ closeWindow /\ UNCHANGED notWindow

\* the helper is studied with and without a window of its label
InitAnyLabel ==
    \E open \in BOOLEAN : InitPlayer(DefaultHistory, Null) /\ InitWindow(open)

SpecWindow == InitAnyLabel /\ [][NextWindow]_vars

(***************************************************************************)
(* Properties of the notification store                                    *)
(***************************************************************************)
Ids(list) == [i \in 1..Len(list) |-> list[i].id]

\* position of an identifier in the order of the add calls
AddRank(id) == CHOOSE k \in 1..Len(added) : added[k] = id

\* the list `list` without its k-th element
Without(list, k) == SubSeq(list, 1, k - 1) \o SubSeq(list, k + 1, Len(list))

\* C1: after any sequence of add and remove calls no two entries of the
\* notification list share an id, the entries present appear in the order of
\* their add calls, and add appends at the end without touching the earlier
\* entries.
C1_UniqueIdsInAddOrder ==
    /\ \A i, j \in 1..Len(notifications) :
          i < j => /\ notifications[i].id # notifications[j].id
                   /\ AddRank(notifications[i].id) < AddRank(notifications[j].id)
    /\ last.op = "add" =>
          /\ Len(notifications) = Len(last.pre) + 1
          /\ SubSeq(notifications, 1, Len(last.pre)) = last.pre

\* C1 witness: three adds, the middle entry removed, the other two in order
C1_Witness ==
    /\ Len(added) = 3
    /\ Ids(notifications) = <<added[1], added[3]>>

\* C2: remove(id) with an id matching no entry leaves the list unchanged;
\* with a matching id it deletes exactly the first entry with that id and
\* keeps every other entry, in the same order.
C2_RemoveFrame ==
    last.op = "remove" =>
        IF \A i \in 1..Len(last.pre) : last.pre[i].id # last.id
        THEN notifications = last.pre
        ELSE \E k \in 1..Len(last.pre) :
                /\ last.pre[k].id = last.id
                /\ \A j \in 1..(k - 1) : last.pre[j].id # last.id
                /\ notifications = Without(last.pre, k)

\* C2 witness: a remove of the middle entry of three
C2_Witness ==
    /\ last.op = "remove"
    /\ Len(last.pre) = 3
    /\ last.pre[2].id = last.id
    /\ Len(notifications) = 2

\* C2, the other case reached: a remove matching nothing on a non-empty list
C2_NoMatchReached ==
    /\ last.op = "remove"
    /\ Len(last.pre) >= 2
    /\ \A i \in 1..Len(last.pre) : last.pre[i].id # last.id

\* C3 (as claimed): add returns the id of the entry it just appended, the id
\* of the new last entry of the list.
C3_AddReturnsNewId ==
    last.op = "add" => last.ret = notifications[Len(notifications)].id

\* C4: add with timeout -1 stores Number.MAX_SAFE_INTEGER, add with no
\* timeout stores 0, add with any other timeout stores it unchanged.
C4_StoredTimeout ==
    last.op = "add" =>
        LET stored == notifications[Len(notifications)].timeout
            given  == last.options.timeout
        IN  /\ given = Num(-1) => stored = MAX_SAFE_INTEGER
            /\ given = Undefined => stored = Num(0)
            /\ given \notin {Num(-1), Undefined} => stored = given

\* C4 witness: an add with the -1 sentinel, stored as MAX_SAFE_INTEGER
C4_Witness ==
    /\ last.op = "add"
    /\ last.options.timeout = Num(-1)
    /\ notifications[Len(notifications)].timeout = MAX_SAFE_INTEGER
    /\ MAX_SAFE_INTEGER # Num(-1)

(***************************************************************************)
(* Properties of the playback rate                                         *)
(***************************************************************************)
LastIndex == Len(PLAYBACK_SPEEDS) - 1

\* C5: after any sequence of changePlayrate calls the playback index stays
\* within [0, len(speeds) - 1], each call moves it one place towards the
\* direction asked or leaves it at the end it is at (no wraparound), and
\* the rate is the allowed speed at the index, initially too.
C5_IndexInRangeRateAtIndex ==
    /\ playbackIndex \in 0..LastIndex
    /\ rate = PLAYBACK_SPEEDS[playbackIndex + 1]
    /\ \E i \in 1..Len(PLAYBACK_SPEEDS) : rate = PLAYBACK_SPEEDS[i]
    /\ last.op = "changePlayrate" =>
          playbackIndex =
              IF last.direction = 1
              THEN (IF last.pre = LastIndex THEN LastIndex ELSE last.pre + 1)
              ELSE (IF last.pre = 0 THEN 0 ELSE last.pre - 1)

\* C5 witness: an increase at the last index and, in another run, a
\* decrease at index 0, both leaving the index where it was
C5_Witness ==
    /\ last.op = "changePlayrate"
    /\ last.direction = 1
    /\ last.pre = LastIndex
    /\ playbackIndex = LastIndex
    /\ rate = 1600

C5_LowEndReached ==
    /\ last.op = "changePlayrate"
    /\ last.direction = 0
    /\ last.pre = 0
    /\ playbackIndex = 0
    /\ rate = 7

\* the first n changePlayrate calls of the run were all increases
OnlyIncreases(n) == rateCalls = n /\ incCalls = n

\* C6 (as claimed): starting at the default index 5, ten consecutive
\* increase calls leave the index at the last index of the list and the
\* rate at the largest speed.
C6_TenIncreasesReachLast ==
    OnlyIncreases(10) => playbackIndex = LastIndex /\ rate = 1600

\* C6 (amended): starting at the default index 5, ten consecutive increase
\* calls leave the index at 15 (rate 12), two short of the last index 17;
\* from the twelfth consecutive increase on the index is clamped at the
\* last index (rate 16).
C6_TenIncreasesReachFifteen ==
    /\ OnlyIncreases(10) => playbackIndex = 15 /\ rate = 1200
    /\ \A n \in 12..MaxRateCalls :
          OnlyIncreases(n) => playbackIndex = LastIndex /\ rate = 1600

\* C6 witness: the run of thirteen increases, clamped since the twelfth
C6_Witness == OnlyIncreases(13) /\ playbackIndex = 17

(***************************************************************************)
(* Properties of the volume                                                *)
(***************************************************************************)
\* C8: starting from a multiple of 0.1 in [0, 1], after any sequence of
\* volume steps and mute/unmute toggles the volume stays within [0, 1];
\* decreaseVolume at 0 leaves 0, increaseVolume at 1 leaves 1, and every
\* other step moves the volume by exactly 0.1.
C8_VolumeClampedSteps ==
    /\ volume >= 0
    /\ volume <= FullVolume
    /\ last.op = "increaseVolume" =>
          volume = IF last.pre = FullVolume THEN FullVolume
                   ELSE last.pre + VolumeStep
    /\ last.op = "decreaseVolume" =>
          volume = IF last.pre = 0 THEN 0 ELSE last.pre - VolumeStep

\* C8 witness: muted from 0.3, then decreaseVolume at 0 leaving 0
C8_Witness ==
    /\ last.op = "decreaseVolume"
    /\ last.pre = 0
    /\ volume = 0
    /\ volumeCache = 300

C8_TopReached ==
    /\ last.op = "increaseVolume"
    /\ last.pre = FullVolume
    /\ volume = FullVolume
    /\ volumeCache = 200

(***************************************************************************)
(* Properties of the transport                                             *)
(***************************************************************************)
Max(a, b) == IF a > b THEN a ELSE b

\* C7 (as claimed): relative seek clamps to [0, duration]: from a position
\* in [0, duration], forward(amount) sets currentTime to
\* min(currentTime + amount, duration) and rewind(amount) sets it to
\* max(currentTime - amount, 0).
C7_RelativeSeekClamps ==
    /\ (last.op = "forwardVideo" /\ last.pre \in 0..duration) =>
          currentTime = Min(last.pre + last.amount, duration)
    /\ (last.op = "rewindVideo" /\ last.pre \in 0..duration) =>
          currentTime = Max(last.pre - last.amount, 0)

\* C7, the example of the claim: forward(10) at 95 of 100 gives 100
C7_ForwardAt95 ==
    (/\ last.op = "forwardVideo"
     /\ last.amount = 10
     /\ last.pre = 95
     /\ duration = 100) => currentTime = 100

\* number of loopBack listeners attached to the element
Attached == LoopBackCalls(endedListeners)

\* C9: after any sequence of loop toggles the looping flag alternates with
\* every toggle, exactly one end-of-media restart listener is attached
\* when looping is on and none when it is off, and an end-of-media event
\* restarts playback from zero exactly once when looping is on and never
\* when it is off.
C9_LoopToggleSingleListener ==
    /\ Attached = IF Truthy(looping) THEN 1 ELSE 0
    /\ last.op = "setLoopMode" => Truthy(looping) = ~Truthy(last.pre)
    /\ last.op = "ended" =>
          /\ last.restarts = IF Truthy(last.pre) THEN 1 ELSE 0
          /\ Truthy(last.pre) => currentTime = 0 /\ ~paused
          /\ ~Truthy(last.pre) => currentTime = duration /\ paused

\* C9 witness: the end of the media reached with looping on, the single
\* listener restarting playback from zero
C9_Witness ==
    /\ last.op = "ended"
    /\ Truthy(last.pre)
    /\ last.restarts = 1
    /\ currentTime = 0
    /\ ~paused

\* C9, the other case reached: looping switched on and off again, then
\* the end of the media with no restart
C9_OffReached ==
    /\ last.op = "ended"
    /\ last.pre = Bool(FALSE)
    /\ last.restarts = 0

(***************************************************************************)
(* Properties of the startup                                               *)
(***************************************************************************)
\* the hook has run to its end (or was ended by a rejected promise)
StartupOver == startPc \in {"opened", "chooser", "rejected"}

\* the command line names a file on disk whose extension is in the
\* allow-list {ogg, webm, mp4, mkv, mov, mp3}
CliPathPlayable ==
    /\ Truthy(cliPath)
    /\ cliPath.s \in ExistingFiles
    /\ extname(cliPath.s) # Rejected
    /\ includes(VALID_EXTENSIONS, toLowerCase(extname(cliPath.s)))

\* C10 (as claimed): at startup, a CLI-supplied path that exists on disk
\* and has an extension of the allow-list is opened directly through
\* setVideoSource, and the hook does not present the source chooser.
C10_CliPathOpenedDirectly ==
    (StartupOver /\ CliPathPlayable) => startPc = "opened"

\* C11 (as claimed): at startup, if the CLI path is absent, points to a
\* nonexistent file, or has an extension outside the allow-list, no source
\* is opened and the chooser is shown: the hook ends on showVideoChooser(),
\* which leaves choosingVideo true, and has made no setVideoSource call.
C11_UnplayableCliPathShowsChooser ==
    (StartupOver /\ ~CliPathPlayable) =>
        /\ startPc = "chooser"
        /\ (last.op = "startup" => choosingVideo)
        /\ \A i \in 1..Len(opens) : opens[i].by # "cli"

(***************************************************************************)
(* Properties of opening a source                                          *)
(***************************************************************************)
\* a setVideoSource call has just run to its last line, playVideo()
OpenCompleted == last.op = "setVideoSource" /\ last.at = "done"

\* C12 (as claimed): whenever setVideoSource(filepath) completes, from any
\* prior state, the chooser is closed, the resume record's video is
\* filepath, and its playVideo() has started playback (called play())
\* rather than paused it.
C12_OpenSourceEndsPlaying ==
    OpenCompleted =>
        /\ ~choosingVideo
        /\ history.video = Str(last.call.filepath)
        /\ ~last.pre
        /\ playPending > 0

\* C12, the case the claim names: a source is picked with Ctrl+O while the
\* previous one plays; playing.value is still true when setVideoSource
\* reaches playVideo(), which takes its pause branch on the new source
C12_PausedAfterOpen ==
    /\ OpenCompleted
    /\ last.call.by = "dialog"
    /\ ~choosingVideo
    /\ history.video = Str(last.call.filepath)
    /\ last.pre
    /\ paused
    /\ playPending = 0
    /\ transformationIcon = Str(<<"Pause">>)

(***************************************************************************)
(* Properties of useWindowClose                                            *)
(***************************************************************************)
\* C13: a blur event of the labelled window makes a listening instance
\* call closeWindow if and only if its suppression flag is false when the
\* event fires (the value a ref holds then, not the one it held when the
\* listener was registered); an Escape keydown makes every mounted
\* instance call closeWindow whatever its flag is, and no other key does;
\* closeWindow closes the window, and when no window has the label it
\* does nothing.
C13_BlurAndEscapeClose ==
    /\ last.op = "blur" =>
          \A i \in Instances :
              i \in last.callers <=>
                  (last.pre[i].listening /\ ~last.pre[i].value)
    /\ last.op = "keydown" =>
          \A i \in Instances :
              i \in last.callers <=>
                  (last.pre[i].stage = "mounted" /\ last.code = "Escape")
    /\ last.op \in {"blur", "keydown"} =>
          closing >= Cardinality(last.callers)
    /\ last.op = "closeWindow" => ~winOpen

\* C13 witness: a blur event closes through an instance whose ref held
\* true when the listener was registered and holds false now
C13_Witness ==
    /\ last.op = "blur"
    /\ \E i \in Instances :
          /\ last.pre[i].isRef
          /\ last.pre[i].atSetup
          /\ ~last.pre[i].value
          /\ i \in last.callers
    /\ closing > 0

\* C13, the other cases reached: a blur event suppressed by a ref set to
\* true after the registration; Escape closing with the flag set; a
\* closeWindow call that finds no window
C13_SuppressedReached ==
    /\ last.op = "blur"
    /\ \E i \in Instances :
          /\ last.pre[i].listening
          /\ last.pre[i].isRef
          /\ ~last.pre[i].atSetup
          /\ last.pre[i].value
          /\ i \notin last.callers

C13_EscapeReached ==
    /\ last.op = "keydown"
    /\ last.code = "Escape"
    /\ \E i \in last.callers : last.pre[i].value

C13_NoWindowReached ==
    /\ last.op = "closeWindow"
    /\ ~last.existed
    /\ ~winOpen

\* C14 (as claimed): when an instance is unmounted both of its listeners,
\* the blur listener and the keydown listener, are unregistered: no
\* listener of an unmounted instance remains, and no later blur or Escape
\* makes an unmounted instance call closeWindow.
C14_UnmountRemovesBothListeners ==
    /\ \A i \in Instances :
          helpers[i].stage = "unmounted" =>
              /\ i \notin keydownListeners
              /\ ~helpers[i].listening
    /\ last.op \in {"blur", "keydown"} =>
          \A i \in last.callers : last.pre[i].stage # "unmounted"

\* C14, the part that holds: the keydown listener of an unmounted
\* instance is gone, and Escape never closes through such an instance
C14_KeydownListenerRemoved ==
    /\ \A i \in Instances :
          helpers[i].stage = "unmounted" => i \notin keydownListeners
    /\ last.op = "keydown" =>
          \A i \in last.callers : last.pre[i].stage # "unmounted"

\* C14, the failure reached: a blur event closes the window through the
\* listener of an instance that was unmounted
C14_BlurAfterUnmount ==
    /\ last.op = "blur"
    /\ \E i \in last.callers : last.pre[i].stage = "unmounted"

(***************************************************************************)
(* Properties of the chooser                                               *)
(***************************************************************************)
\* C15: continueFromPrevious with a video in the resume record makes the
\* saved time the position and calls setVideoSource with the saved video
\* and the saved title: the source is the saved video, positioned at the
\* saved time, and the load does not overwrite the saved time in the
\* record; without a video it opens no source and shows the file dialog.
C15_ContinueFromPrevious ==
    last.op = "continueFromPrevious" =>
        IF Truthy(last.pre.video)
        THEN /\ Len(opens) = last.opens + 1
             /\ opens[Len(opens)].filepath = last.pre.video.s
             /\ opens[Len(opens)].title = last.pre.title
             /\ dialogs = last.dialogs
             /\ currentTime = last.pre.time
             /\ history.time = last.pre.time
             /\ history.video = last.pre.video
             /\ Truthy(last.pre.title) =>
                   /\ videoSrc = Str(convertFileSrc(last.pre.video.s))
                   /\ videoTitle = last.pre.title
                   /\ ~choosingVideo
        ELSE /\ Len(opens) = last.opens
             /\ videoSrc = last.src
             /\ history = last.pre
             /\ dialogs = last.dialogs + 1

\* C15 witness: a run finds FileMp4 saved at 7 seconds; continueFromPrevious
\* makes it the first source of the element, at 7 seconds
C15_Witness ==
    /\ last.op = "continueFromPrevious"
    /\ last.pre.video = Str(FileMp4)
    /\ last.pre.time = 7
    /\ last.src = EmptyString
    /\ videoSrc = Str(convertFileSrc(FileMp4))
    /\ currentTime = 7
    /\ history.time = 7

\* C15, the other cases reached: the saved video is the source the element
\* already holds, stopped after some playback; the record has no video
C15_SameSourceReached ==
    /\ last.op = "continueFromPrevious"
    /\ Truthy(last.pre.video)
    /\ last.src = videoSrc
    /\ last.pre.time = 5
    /\ currentTime = 5

C15_NoVideoReached ==
    /\ last.op = "continueFromPrevious"
    /\ ~Truthy(last.pre.video)
    /\ dialogs = 1

\* C16 (as claimed): continueFromPrevious is only reachable when no source
\* is loaded: it is never invoked while videoSrc holds a source, not even
\* after the chooser was reopened over a loaded source.
C16_ContinueOnlyWithoutSource ==
    last.op = "continueFromPrevious" => last.src = EmptyString

\* C16, the failure reached: the chooser reopened over the playing source
\* (which pauses it), then continueFromPrevious with that source loaded
C16_ContinueOverLoadedSource ==
    /\ last.op = "continueFromPrevious"
    /\ last.src = Str(convertFileSrc(FileMp4))
    /\ last.pre.video = Str(FileMp4)
    /\ videoSrc = last.src

\* the chooser has just been opened over the player, through the
\* change-video action or through the watcher of history.video
ChooserOpened == last.op \in {"showVideoChooser", "historyVideoCleared"}

\* C17: whenever the chooser is opened, by the change-video action or
\* because the video of the resume record was cleared, the chooser is
\* visible and, if the video was playing (playing.value), the element ends
\* paused; no pause path starts playback: play() is never called.
C17_ChooserOpenedPausesPlayback ==
    ChooserOpened =>
        /\ choosingVideo
        /\ last.pre => paused
        /\ playPending = last.pending

\* C17 witness: the video of the record is cleared while the source
\* plays; both playVideo() calls of the watcher pause, each with its alert
C17_Witness ==
    /\ last.op = "historyVideoCleared"
    /\ last.pre
    /\ choosingVideo
    /\ paused
    /\ alertTimers = 2
    /\ transformationIcon = Str(<<"Pause">>)

\* C17, the change-video action reached over a playing source
C17_ChangeVideoReached ==
    /\ last.op = "showVideoChooser"
    /\ last.pre
    /\ choosingVideo
    /\ paused

(***************************************************************************)
(* Properties of the transformation alert                                  *)
(***************************************************************************)
\* the alert shows something
AlertShown == transformationIcon # Undefined \/ Truthy(transformationText)

\* C18: every displayTransformationAlert call is eventually followed by
\* the alert being cleared, for any interleaving of calls and timeouts:
\* whenever the alert shows something, a later state shows nothing, so no
\* alert stays displayed forever once the calls stop.
C18_AlertEventuallyCleared == AlertShown ~> ~AlertShown

\* C18, what it rests on: an alert that shows something has a timeout
\* pending that will clear it
C18_ShownAlertHasTimer == AlertShown => alertTimers > 0

\* C18 witness: a timeout clears the alert a volume change has set, and
\* no timeout is left
C18_Witness ==
    /\ last.op = "alertTimer"
    /\ last.icon = Str(<<"Volume2">>)
    /\ ~AlertShown
    /\ alertTimers = 0

\* the handlers of the volume that end with displayTransformationAlert
AlertingOps == {"increaseVolume", "decreaseVolume", "mute", "unmute"}

\* C19: every displayTransformationAlert call starts a timeout of its own
\* and cancels none (one more is pending after the call), and a timeout
\* that runs out clears whatever the alert shows, be it the content of a
\* later call whose own timeout is still pending.
C19_EachCallOwnTimer ==
    [][/\ last'.op \in AlertingOps => alertTimers' = alertTimers + 1
       /\ last'.op = "alertTimer" =>
             /\ alertTimers' = alertTimers - 1
             /\ ~AlertShown']_vars

\* C19 witness, the race: two calls are made before any timeout runs out
\* (volume up to 60%, then mute); the timeout of the first call, the
\* older of the two pending, clears the VolumeX alert of the second call
\* while the timeout of the second call is still pending
C19_Witness ==
    /\ last.op = "alertTimer"
    /\ last.pending = 2
    /\ last.icon = Str(<<"VolumeX">>)
    /\ volume = 0
    /\ volumeCache = 600
    /\ ~AlertShown
    /\ alertTimers = 1

(***************************************************************************)
(* Properties of the auto-hide of the controls                             *)
(***************************************************************************)
\* the inputs that count for the auto-hide: a mouse move, a rate change
QualifyingInput == last.op \in {"mouseMoveHandler", "changePlayrate"}

\* C20 (as claimed): a qualifying input received while the chooser shows
\* hides the controls at once and does not start the auto-hide timeout;
\* received while the chooser does not show, it makes the controls
\* visible and restarts the single timeout; the controls are hidden when
\* the timeout runs out.
C20_AutoHideControls ==
    /\ (QualifyingInput /\ choosingVideo) => uiHidden /\ ~last.started
    /\ (QualifyingInput /\ ~choosingVideo) =>
          ~uiHidden /\ last.started /\ hideTimer
    /\ last.op = "hideTimer" => uiHidden /\ ~hideTimer

\* C20, the part that holds: the mouse move, whether the chooser shows or
\* not, and the timeout that runs out
C20_MouseMoveAutoHide ==
    /\ (last.op = "mouseMoveHandler" /\ choosingVideo) =>
          uiHidden /\ ~last.started
    /\ (QualifyingInput /\ ~choosingVideo) =>
          ~uiHidden /\ last.started /\ hideTimer
    /\ last.op = "hideTimer" => uiHidden /\ ~hideTimer

\* C20, the failure reached: a rate change while the chooser shows makes
\* the controls visible and starts the timeout
C20_RateChangeOverChooser ==
    /\ last.op = "changePlayrate"
    /\ choosingVideo
    /\ ~uiHidden
    /\ hideTimer

(***************************************************************************)
(* C21: saveYouTubeVideo never goes on to save_youtube_video without a     *)
(* YouTube code: a call that finds no youtubeCode adds exactly one warning *)
(* and stops, so no call in flight carries an empty code and no invoke is  *)
(* made with one; the answer of the command is followed by exactly one     *)
(* notification, an error with the returned text or a success.             *)
(***************************************************************************)
C21_SaveNeedsYoutubeCode ==
    /\ \A i \in 1..Len(saves) : Truthy(saves[i].code)
    /\ (last.op = "saveYouTubeVideo" /\ last.at = "invoke")
          => Truthy(last.code)
    /\ (last.op = "saveYouTubeVideo" /\ last.at = "call"
           /\ ~Truthy(last.code))
          => /\ Len(notifications) = Len(last.pre) + 1
             /\ notifications[Len(notifications)].type = "warning"
    /\ (last.op = "saveYouTubeVideo" /\ last.at = "result")
          => /\ Len(notifications) = Len(last.pre) + 1
             /\ notifications[Len(notifications)].type =
                   (IF last.result.s # <<>> THEN "error" ELSE "success")

\* the command has been invoked with an undefined code
C21_InvokedWithoutCode ==
    /\ last.op = "saveYouTubeVideo"
    /\ last.at = "invoke"
    /\ last.code = Undefined

(***************************************************************************)
(* C22: when a source is loaded and no setVideoSource call, listener or    *)
(* dialog is in flight, history.isYoutube is true exactly when the loaded  *)
(* source is the one a video-downloaded event has opened.                  *)
(***************************************************************************)
\* the loaded source is the file of a video-downloaded event: the dialog
\* and the command line never name that file
OpenedByDownload == videoSrc = Str(convertFileSrc(FileYoutube))

NothingInFlight == opens = <<>> /\ downloads = <<>> /\ dialogs = 0

C22_IsYoutubeMatchesSource ==
    (videoSrc # EmptyString /\ NothingInFlight)
       => (history.isYoutube <=> OpenedByDownload)

\* the downloaded video is loaded and nothing is in flight, but the flag
\* has been cleared by a file dialog that resolved in between
C22_DownloadLoadedWithoutFlag ==
    /\ OpenedByDownload
    /\ NothingInFlight
    /\ ~history.isYoutube

(***************************************************************************)
(* C23: the Player's listeners on window are scoped to its mount: of every *)
(* instance that has been unmounted no keydown, keyup, mousemove or wheel  *)
(* listener is left on window, and the mounted instance has exactly one    *)
(* of each.                                                                *)
(***************************************************************************)
ListenersOf(instance, type) ==
    Cardinality({i \in 1..Len(windowListeners[type]) :
                    windowListeners[type][i].instance = instance})

C23_ListenersScopedToMount ==
    \A instance \in 1..mounts, type \in EventTypes :
        ListenersOf(instance, type) =
            (IF mounted /\ instance = mounts THEN 1 ELSE 0)

\* an unmounted instance has left its wheel listener on window
C23_WheelListenerLeft ==
    /\ last.op = "playerUnmounted"
    /\ ListenersOf(last.instance, "wheel") = 1

====
